---- MODULE Spec2Model ----
(***************************************************************************)
(* Font downloader of the Baukasten build (font-downloader-netlify.js and  *)
(* its Astro integration): retryWithBackoff / downloadFont, the persisted  *)
(* font cache state, and downloadFontsWithCache run after run against the  *)
(* directory public/fonts.                                                 *)
(*                                                                         *)
(* One JavaScript continuation (the code between two awaits) is one        *)
(* action.  A fetch in flight is the state pc = "fetch".                   *)
(*                                                                         *)
(* Spec has downloadFontsWithCache called directly, run after run.         *)
(* SpecBuild has it called by the two entry points of a build: the Netlify *)
(* hook onPreBuild and the Astro hook astro:config:setup, which first      *)
(* fetch and parse global.json.                                            *)
(***************************************************************************)
EXTENDS Integers, Sequences, FiniteSets, TLC

(***************************************************************************)
(* Bounds of the model                                                     *)
(***************************************************************************)
\* number of calls of downloadFontsWithCache in one behaviour
MaxRuns == 2
\* explicit maxRetries options run from 0 to MaxRetriesOpt
MaxRetriesOpt == 2
\* number of calls made on one timer of createTimer
MaxCalls == 5
\* length of the longest path given to sanitizePath
MaxPathLen == 5

(***************************************************************************)
(* Program constants                                                       *)
(***************************************************************************)
DefaultTimeout == 30000
DefaultMaxRetries == 3
DefaultRetryDelay == 1000

(***************************************************************************)
(* Values                                                                  *)
(***************************************************************************)
\* a URL is its sequence of path segments; the falsy URL is the empty one
NoUrl == <<>>
U(dir, file) == <<"cms", dir, file>>
\* path.basename: the last segment
basename(p) == IF Len(p) = 0 THEN "" ELSE p[Len(p)]
\* the bytes the origin serves at a URL
BodyOf(url) == <<"body">> \o url
\* `/fonts/${fileName}`; the null path is the empty one
NullPath == <<>>
FontsPath(fileName) == <<"fonts", fileName>>

FontA == [name |-> "regular", url1 |-> U("v1", "regular.woff"), url2 |-> NoUrl]
FontB == [name |-> "bold", url1 |-> NoUrl, url2 |-> U("v1", "bold.woff2")]
FontB2 == [name |-> "bold", url1 |-> NoUrl, url2 |-> U("v2", "bold.woff2")]
FontC == [name |-> "italic", url1 |-> U("v1", "italic.woff"),
          url2 |-> U("v1", "italic.woff2")]

\* the font lists (global.font) a run may be called with
Configs == { <<FontA, FontB>>, <<FontC, FontA, FontB2>> }

\* the option bags an integration is built with: none (the Netlify plugin
\* passes none), or maxRetries and retryDelay
UserOptions ==
    { [k \in {} |-> 0] } \cup
    { [maxRetries |-> m, retryDelay |-> 100] : m \in 0..MaxRetriesOpt }

\* { ...defaultOptions, ...options }
MergeOptions(defaults, options) ==
    [k \in DOMAIN defaults \cup DOMAIN options |->
        IF k \in DOMAIN options THEN options[k] ELSE defaults[k]]

defaultOptions ==
    [timeout |-> DefaultTimeout, maxRetries |-> DefaultMaxRetries,
     retryDelay |-> DefaultRetryDelay]

(***************************************************************************)
(* generateFontConfigHash: JSON.stringify of the list of {name, url1,      *)
(* url2} in list order, then SHA-256.  The digest is taken as injective on *)
(* the serialized text, so the hash is the serialized list itself, wrapped *)
(* (a hash is never the empty, falsy value).                               *)
(***************************************************************************)
generateFontConfigHash(fonts) ==
    << [i \in 1..Len(fonts) |->
          <<fonts[i].name, fonts[i].url1, fonts[i].url2>>] >>
NoHash == <<>>

(***************************************************************************)
(* The cache state file .astro/font-cache-state.json                       *)
(*   kind: "missing" | "unparseable" | "null" | "object"                   *)
(*   for an object: lastSync (0 is null), configHash (NoHash when absent), *)
(*   fonts (fontsIsArray says whether the field is an array), version      *)
(***************************************************************************)
StateValue(kind, lastSync, configHash, fontsIsArray, fontList, version) ==
    [kind |-> kind, lastSync |-> lastSync, configHash |-> configHash,
     fontsIsArray |-> fontsIsArray, fonts |-> fontList, version |-> version]

CurrentVersion == "1.0.0"
\* the version field of a state file written by an earlier release
OlderVersion == "0.9.0"
FreshState == StateValue("object", 0, NoHash, TRUE, <<>>, CurrentVersion)
MissingFile == StateValue("missing", 0, NoHash, FALSE, <<>>, "")
UnparseableFile == StateValue("unparseable", 0, NoHash, FALSE, <<>>, "")
JsonNull == StateValue("null", 0, NoHash, FALSE, <<>>, "")
EmptyObject == StateValue("object", 0, NoHash, FALSE, <<>>, "")

\* loadFontCacheState: what JSON.parse gives, or a fresh state
loadFontCacheState(file) ==
    IF file.kind = "missing" THEN FreshState
    ELSE IF file.kind = "unparseable" THEN FreshState
    ELSE file

\* mutant: === for !==
hasFontConfigSame(fonts, cachedState) ==
    LET newHash == generateFontConfigHash(fonts)
    IN  cachedState.configHash = NoHash \/ cachedState.configHash = newHash

\* hasFontConfigChanged (evaluated on an object; null is handled by the caller)
hasFontConfigChanged(fonts, cachedState) ==
    LET newHash == generateFontConfigHash(fonts)
    IN  cachedState.configHash = NoHash \/ cachedState.configHash # newHash


\* mutant: a format that was not downloaded (null path) counts as missing
allFilesExistBothFormats(cachedFonts, dir) ==
    \A k \in 1..Len(cachedFonts) :
        /\ basename(cachedFonts[k].woff) \in DOMAIN dir
        /\ basename(cachedFonts[k].woff2) \in DOMAIN dir

\* mutant: only the WOFF of a cached font is looked for
allFilesExistWoffOnly(cachedFonts, dir) ==
    \A k \in 1..Len(cachedFonts) :
        \/ cachedFonts[k].woff = NullPath
        \/ basename(cachedFonts[k].woff) \in DOMAIN dir

\* mutant: the cached fonts are not looked for
allFilesExistUnverified(cachedFonts, dir) == TRUE

\* the cached fonts still exist (lines 429-437)
allFilesExist(cachedFonts, dir) ==
    \A k \in 1..Len(cachedFonts) :
        /\ (cachedFonts[k].woff = NullPath
              \/ basename(cachedFonts[k].woff) \in DOMAIN dir)
        /\ (cachedFonts[k].woff2 = NullPath
              \/ basename(cachedFonts[k].woff2) \in DOMAIN dir)

(***************************************************************************)
(* Errors.  `at` is the attempt that raised the error object; `locator` is *)
(* the URL the error object names, if any.  The code builds the HTTP error *)
(* from status and statusText only; what the fetch library puts into its   *)
(* own errors is not the code's choice.                                    *)
(***************************************************************************)
Err(kind, status, at, locator) ==
    [kind |-> kind, status |-> status, at |-> at, locator |-> locator]
NoError == Err("none", 0, 0, NoUrl)

\* a response that is not ok (line 322-324)
HttpError(status, at) == Err("http", status, at, NoUrl)

\* every way attempt `at` of fetching url can fail: a response that is not
\* ok, the abort by the timeout, a network error of the fetch library
AttemptFailures(url, at) ==
    { HttpError(s, at) : s \in {404, 503} }
    \cup { Err("timeout", 0, at, NoUrl) }
    \cup { Err("network", 0, at, url) }

(***************************************************************************)
(* retryWithBackoff                                                        *)
(***************************************************************************)
\* mutants: the loop stops one attempt early; the exponent is one too
\* large; the wait before the last retry is skipped; the first error is kept
LoopConditionExclusive(attempt, maxRetries) == attempt < maxRetries
BackoffDelayDoubled(baseDelay, attempt) == baseDelay * (2 ^ (attempt + 1))
WaitsBeforeRetryButLast(attempt, maxRetries) == attempt + 1 < maxRetries
KeepsFirstError(lastErr, error) ==
    IF lastErr.kind = "none" THEN error ELSE lastErr
\* mutant: the loop goes round once more
LoopConditionOneMore(attempt, maxRetries) == attempt <= maxRetries + 1

\* the loop condition of line 287
LoopCondition(attempt, maxRetries) == attempt <= maxRetries
\* the guard of the backoff wait, line 292
WaitsBeforeRetry(attempt, maxRetries) == attempt < maxRetries
\* line 293
BackoffDelay(baseDelay, attempt) == baseDelay * (2 ^ attempt)
\* line 291
NextLastError(lastErr, error) == error

(***************************************************************************)
(* One attempt of downloadFont (the fn of lines 309-331)                   *)
(***************************************************************************)
\* mutant: one AbortController, made outside fn, serves all attempts
ControllerShared(attempt) == 0

\* line 310: every call of fn makes its own AbortController
ControllerOf(attempt) == attempt

\* mutant: the catch does not clear the timer
TimersKeptInCatch(timers, controller, error) ==
    IF error.kind = "network" THEN timers ELSE timers \ {controller}

\* the armed timers when the attempt of controller has thrown error: the
\* timer was cleared at line 320 or has fired, or is cleared at line 329
TimersAfterCatch(timers, controller, error) == timers \ {controller}

\* the failures of an attempt in its phase: once the response is there the
\* timer is cleared (line 320), and reading the body can only fail by itself
FailuresIn(phase, url, at) ==
    IF phase = "headers" THEN AttemptFailures(url, at)
    ELSE { Err("network", 0, at, url) }

\* fn is called for attempt at (lines 310-314): a controller, a timer that
\* will abort it, and the fetch; controllers that nothing refers to any more
\* are forgotten
ArmedAttempt(d, at) ==
    [d EXCEPT !.active = TRUE,
              !.phase = "headers",
              !.controller = ControllerOf(at),
              !.timers = @ \cup {ControllerOf(at)},
              !.aborted = @ \cap ({ControllerOf(at)} \cup d.timers)]

\* the attempt in flight of d has thrown error (lines 328-331)
FailedAttempt(d, error) ==
    [d EXCEPT !.phase = "",
              !.timers = TimersAfterCatch(@, d.controller, error),
              !.aborted = IF error.kind = "timeout"
                          THEN @ \cup {d.controller} ELSE @]

VARIABLES
    files,          \* public/fonts without fonts.json: file name -> bytes
    fontsJson,      \* public/fonts/fonts.json: [exists, fonts]
    stateFile,      \* .astro/font-cache-state.json
    options,        \* the options the integration was built with
    clock,          \* number of runs started; the time of a run
    pc,             \* "idle", "woff", "woff2", "fetch", "push", "finish"
    fonts,          \* the font list of the run
    opts,           \* the merged options of the run
    fontData,       \* the fonts downloaded so far in the run
    i,              \* index of the font of the loop of line 479
    woffPath, woff2Path, hasSuccessfulDownload,
    attempt,        \* loop variable of retryWithBackoff
    lastError,      \* lastError of retryWithBackoff
    dl,             \* the downloadFont call in progress or just finished
    run,            \* what the run has done so far (history)
    hook,           \* the entry point in progress or just finished
    pure            \* the inputs and results of generateFontConfigHash
                    \* applied by itself (SpecPure)

diskVars == <<files, fontsJson, stateFile>>
fontVars == <<woffPath, woff2Path, hasSuccessfulDownload>>
retryVars == <<attempt, lastError, dl>>
vars == <<files, fontsJson, stateFile, options, clock, pc, fonts, opts,
          fontData, i, woffPath, woff2Path, hasSuccessfulDownload, attempt,
          lastError, dl, run, hook, pure>>

EmptyDir == [n \in {} |-> <<>>]
NoFontsJson == [exists |-> FALSE, fonts |-> <<>>]
\* no downloadFont call: url, format and font index of the call; active
\* while an attempt is in flight; ok, value, error: how it ended; calls:
\* invocations of fn; failures: failed attempts; delays: the waits so far;
\* phase of the attempt in flight: "headers" (awaiting fetch) or "body"
\* (awaiting response.arrayBuffer()); controller: the AbortController of
\* the attempt in flight; timers: the controllers an armed timeout timer
\* will abort; aborted: the aborted controllers still referenced
NoDownload ==
    [url |-> NoUrl, fmt |-> "", font |-> 0, active |-> FALSE, ok |-> FALSE,
     value |-> <<>>, error |-> NoError, calls |-> 0, failures |-> 0,
     delays |-> <<>>, phase |-> "", controller |-> 0, timers |-> {},
     aborted |-> {}]
\* no run: how the call ended and with what; the path it took; the URLs
\* downloadFont was called with; the <<font, format>> written to disk and
\* those whose download ended in a failure; whether the state was saved;
\* unchanged: the fonts of the run that the disk already held at the call
NoRun ==
    [outcome |-> "none", value |-> <<>>, error |-> "", path |-> "",
     unchanged |-> {}, fetchLog |-> <<>>, written |-> {}, exhausted |-> {},
     saved |-> FALSE]

\* no entry point: kind is "direct" (downloadFontsWithCache is called by
\* itself), "none" (between two hooks), "onPreBuild" or "astro"; kirbyUrl,
\* netlify, dev: whether KIRBY_URL and NETLIFY are set and NODE_ENV is
\* 'development'; restored: how utils.cache.restore ended; enumerated: what
\* became of global.json ("failed", "empty", "fonts"); fonts: global.font;
\* result: how the hook ended ("returned", "raised"); preBuild, for the
\* Astro hook: what onPreBuild did before it in the same build ("none" when
\* it was not called, "skipped", "ran")
DirectCalls ==
    [kind |-> "direct", kirbyUrl |-> TRUE, netlify |-> FALSE, dev |-> FALSE,
     restored |-> "none", enumerated |-> "none", fonts |-> <<>>,
     result |-> "none", preBuild |-> "none"]
NoHook == [DirectCalls EXCEPT !.kind = "none"]

\* generateFontConfigHash is not being applied by itself: step is "none";
\* else a and b are two parsed font lists, ha and hb their hashes, ha2 the
\* hash of a from a second call
NoPure == [step |-> "none", a |-> <<>>, b |-> <<>>, ha |-> <<>>, hb |-> <<>>,
           ha2 |-> <<>>]

Init ==
    /\ files = EmptyDir
    /\ fontsJson = NoFontsJson
    /\ stateFile = MissingFile
    /\ options \in UserOptions
    /\ clock = 0
    /\ pc = "idle"
    /\ fonts = <<>>
    /\ opts = defaultOptions
    /\ fontData = <<>>
    /\ i = 0
    /\ woffPath = NullPath
    /\ woff2Path = NullPath
    /\ hasSuccessfulDownload = FALSE
    /\ attempt = 0
    /\ lastError = NoError
    /\ dl = NoDownload
    /\ run = NoRun
    /\ hook = DirectCalls
    /\ pure = NoPure

(***************************************************************************)
(* downloadFontsWithCache, lines 398-468: load the cache state, decide,    *)
(* and either return the cached list or clean public/fonts.                *)
(***************************************************************************)
cacheState == loadFontCacheState(stateFile)

\* reading .configHash of null (line 392) or .length of a missing fonts
\* field (line 416) is a TypeError
LoadRaises(f) ==
    \/ cacheState.kind = "null"
    \/ /\ ~hasFontConfigChanged(f, cacheState)
       /\ ~cacheState.fontsIsArray

\* mutant: a cached list of one font does not count as a cache
UsesCacheOfSeveral(f) ==
    /\ ~hasFontConfigChanged(f, cacheState)
    /\ Len(cacheState.fonts) > 1

\* the condition of line 416
UsesCache(f) ==
    /\ ~hasFontConfigChanged(f, cacheState)
    /\ Len(cacheState.fonts) > 0

\* the fonts of f (by index) that the last saved configuration lists with
\* the same name and URLs and whose files are in dir with the bytes of
\* those URLs
UnchangedCached(f, file, dir) ==
    { k \in 1..Len(f) :
        /\ file.kind = "object"
        /\ file.configHash # NoHash
        /\ \E j \in 1..Len(file.configHash[1]) :
              file.configHash[1][j] = <<f[k].name, f[k].url1, f[k].url2>>
        /\ \A u \in {f[k].url1, f[k].url2} \ {NoUrl} :
              /\ basename(u) \in DOMAIN dir
              /\ dir[basename(u)] = BodyOf(u) }

\* mutant: the clean-up is skipped
CleansNothing(dir) == {}

\* the files the clean-up of lines 462-468 unlinks
CleanedFiles(dir) == DOMAIN dir

\* mutant: an error is rethrown on Netlify as well
ContinuesBuildNever(netlify) == FALSE

\* line 698 of onPreBuild: if (process.env.NETLIFY), the error is swallowed
ContinuesBuild(netlify) == netlify

\* how a hook ends whose body returned or threw: the catch of onPreBuild
\* (lines 693-706) rethrows unless on Netlify, that of the Astro hook
\* (fontDownloader.js 79-82) always
HookResult(h, thrown) ==
    IF ~thrown THEN "returned"
    ELSE IF h.kind = "onPreBuild" /\ ContinuesBuild(h.netlify) THEN "returned"
    ELSE "raised"

\* the hook after downloadFontsWithCache has returned to it or thrown
HookAfterRun(thrown) ==
    IF hook.kind = "direct" THEN hook
    ELSE [hook EXCEPT !.result = HookResult(hook, thrown)]

\* downloadFontsWithCache(f) is being called: by itself, or by the hook
\* that has enumerated f
Called(f) ==
    IF hook.kind = "direct" THEN pc = "idle"
    ELSE pc = "call" /\ f = hook.fonts

\* the locals of a call that has returned or has not begun
NoLocals ==
    /\ fontData' = <<>>
    /\ i' = 0
    /\ woffPath' = NullPath
    /\ woff2Path' = NullPath
    /\ hasSuccessfulDownload' = FALSE
    /\ attempt' = 0
    /\ lastError' = NoError
    /\ dl' = NoDownload

\* the call ends in a TypeError before anything is written
CallRaises(f) ==
    /\ Called(f)
    /\ clock < MaxRuns
    /\ LoadRaises(f)
    /\ clock' = clock + 1
    /\ fonts' = f
    /\ opts' = MergeOptions(defaultOptions, options)
    /\ NoLocals
    /\ pc' = "idle"
    /\ run' = [NoRun EXCEPT !.path = "raise", !.outcome = "raised",
                            !.error = "TypeError"]
    /\ hook' = HookAfterRun(TRUE)
    /\ UNCHANGED <<diskVars, options, pure>>

\* lines 416-445: configuration unchanged, cached fonts on disk
CacheHit(f) ==
    /\ Called(f)
    /\ clock < MaxRuns
    /\ ~LoadRaises(f)
    /\ UsesCache(f)
    /\ allFilesExist(cacheState.fonts, files)
    /\ clock' = clock + 1
    /\ fonts' = f
    /\ opts' = MergeOptions(defaultOptions, options)
    /\ NoLocals
    /\ pc' = "idle"
    /\ fontsJson' = [exists |-> TRUE, fonts |-> cacheState.fonts]
    /\ run' = [NoRun EXCEPT !.path = "hit", !.outcome = "returned",
                            !.value = cacheState.fonts]
    /\ hook' = HookAfterRun(FALSE)
    /\ UNCHANGED <<files, stateFile, options, pure>>

\* lines 455-478: clean public/fonts and enter the loop over the fonts
StartDownload(f) ==
    /\ Called(f)
    /\ clock < MaxRuns
    /\ ~LoadRaises(f)
    /\ ~(UsesCache(f) /\ allFilesExist(cacheState.fonts, files))
    /\ clock' = clock + 1
    /\ fonts' = f
    /\ opts' = MergeOptions(defaultOptions, options)
    /\ NoLocals
    /\ files' = [n \in DOMAIN files \ CleanedFiles(files) |-> files[n]]
    /\ pc' = IF Len(f) = 0 THEN "finish" ELSE "woff"
    /\ run' = [NoRun EXCEPT !.path = "download",
                            !.unchanged = UnchangedCached(f, stateFile, files)]
    /\ UNCHANGED <<fontsJson, stateFile, options, pure, hook>>

(***************************************************************************)
(* downloadFont / retryWithBackoff, lines 285-335                          *)
(***************************************************************************)
\* where the loop body goes after the download of a format
AfterFormat(fmt) == IF fmt = "woff" THEN "woff2" ELSE "push"

\* downloadFont(url, opts) is called for font k: the loop of line 287 is
\* entered and, if its condition holds, fn is invoked for the first time
BeginDownload(url, fmt, k) ==
    /\ attempt' = 0
    /\ lastError' = NoError
    /\ IF LoopCondition(0, opts.maxRetries)
       THEN /\ dl' = ArmedAttempt([NoDownload EXCEPT !.url = url, !.fmt = fmt,
                                                      !.font = k, !.calls = 1],
                                   0)
            /\ pc' = "fetch"
            /\ run' = [run EXCEPT !.fetchLog = Append(@, url)]
       ELSE /\ dl' = [NoDownload EXCEPT !.url = url, !.fmt = fmt, !.font = k]
            /\ pc' = AfterFormat(fmt)
            /\ run' = [run EXCEPT !.fetchLog = Append(@, url),
                                  !.exhausted = @ \cup {<<k, fmt>>}]

\* lines 479-486: the next font of the loop, its WOFF
DownloadWoff ==
    /\ pc = "woff"
    /\ i' = i + 1
    /\ woffPath' = NullPath
    /\ woff2Path' = NullPath
    /\ hasSuccessfulDownload' = FALSE
    /\ IF fonts[i + 1].url1 # NoUrl
       THEN BeginDownload(fonts[i + 1].url1, "woff", i + 1)
       ELSE /\ pc' = "woff2"
            /\ attempt' = 0
            /\ lastError' = NoError
            /\ dl' = NoDownload
            /\ UNCHANGED run
    /\ UNCHANGED <<diskVars, options, pure, clock, fonts, opts, fontData, hook>>

\* mutant: the WOFF2 is requested without awaiting the WOFF
DownloadWoff2Unawaited ==
    /\ pc = "woff2" \/ (pc = "fetch" /\ dl.fmt = "woff")
    /\ IF fonts[i].url2 # NoUrl
       THEN BeginDownload(fonts[i].url2, "woff2", i)
       ELSE /\ pc' = "push"
            /\ attempt' = 0
            /\ lastError' = NoError
            /\ dl' = NoDownload
            /\ UNCHANGED run
    /\ UNCHANGED <<diskVars, options, pure, clock, fonts, opts, fontData, i,
                   fontVars, hook>>

\* lines 523-524: the WOFF2 of font i
DownloadWoff2 ==
    /\ pc = "woff2"
    /\ IF fonts[i].url2 # NoUrl
       THEN BeginDownload(fonts[i].url2, "woff2", i)
       ELSE /\ pc' = "push"
            /\ attempt' = 0
            /\ lastError' = NoError
            /\ dl' = NoDownload
            /\ UNCHANGED run
    /\ UNCHANGED <<diskVars, options, pure, clock, fonts, opts, fontData, i,
                   fontVars, hook>>

\* the response of the attempt in flight has arrived and is ok (lines
\* 313-326): the timer is cleared and the body awaited
ResponseOk ==
    /\ pc = "fetch"
    /\ dl.phase = "headers"
    /\ dl' = [dl EXCEPT !.phase = "body", !.timers = @ \ {dl.controller}]
    /\ UNCHANGED <<diskVars, options, pure, clock, pc, fonts, opts, fontData, i,
                   fontVars, attempt, lastError, run, hook>>

\* mutant: the path of a file is recorded although its write failed
AttemptOkRecordsUnwritten(writeOk) ==
    /\ pc = "fetch"
    /\ dl.fmt # "global"
    /\ dl.phase = "body"
    /\ dl' = [dl EXCEPT !.active = FALSE, !.ok = TRUE, !.phase = "",
                        !.value = BodyOf(dl.url)]
    /\ LET fileName == basename(dl.url)
       IN  /\ woffPath' = IF dl.fmt = "woff" THEN FontsPath(fileName)
                          ELSE woffPath
           /\ woff2Path' = IF dl.fmt = "woff2" THEN FontsPath(fileName)
                           ELSE woff2Path
           /\ hasSuccessfulDownload' = TRUE
           /\ IF writeOk
              THEN /\ files' = [n \in DOMAIN files \cup {fileName} |->
                                  IF n = fileName THEN BodyOf(dl.url)
                                  ELSE files[n]]
                   /\ run' = [run EXCEPT !.written = @ \cup {<<i, dl.fmt>>}]
              ELSE UNCHANGED <<files, run>>
    /\ pc' = AfterFormat(dl.fmt)
    /\ UNCHANGED <<fontsJson, stateFile, options, pure, clock, fonts, opts, fontData,
                   i, attempt, lastError, hook>>

\* the attempt in flight delivers its body (line 326); the caller writes it
\* to public/fonts (lines 495-501, 535-541), which may throw into the catch
AttemptOk(writeOk) ==
    /\ pc = "fetch"
    /\ dl.fmt # "global"
    /\ dl.phase = "body"
    /\ dl' = [dl EXCEPT !.active = FALSE, !.ok = TRUE, !.phase = "",
                        !.value = BodyOf(dl.url)]
    /\ LET fileName == basename(dl.url)
       IN  IF writeOk
           THEN /\ files' = [n \in DOMAIN files \cup {fileName} |->
                               IF n = fileName THEN BodyOf(dl.url) ELSE files[n]]
                /\ woffPath' = IF dl.fmt = "woff" THEN FontsPath(fileName)
                               ELSE woffPath
                /\ woff2Path' = IF dl.fmt = "woff2" THEN FontsPath(fileName)
                                ELSE woff2Path
                /\ hasSuccessfulDownload' = TRUE
                /\ run' = [run EXCEPT !.written = @ \cup {<<i, dl.fmt>>}]
           ELSE UNCHANGED <<files, fontVars, run>>
    /\ pc' = AfterFormat(dl.fmt)
    /\ UNCHANGED <<fontsJson, stateFile, options, pure, clock, fonts, opts, fontData,
                   i, attempt, lastError, hook>>

\* the attempt in flight fails with error (lines 290-296): wait and call fn
\* again, or leave the loop and throw lastError into the caller's catch
AttemptFails(error) ==
    /\ pc = "fetch"
    /\ dl.fmt # "global"
    /\ error \in FailuresIn(dl.phase, dl.url, attempt)
    /\ lastError' = NextLastError(lastError, error)
    /\ attempt' = attempt + 1
    /\ LET waited == IF WaitsBeforeRetry(attempt, opts.maxRetries)
                     THEN Append(dl.delays, BackoffDelay(opts.retryDelay, attempt))
                     ELSE dl.delays
           seen == [FailedAttempt(dl, error) EXCEPT !.failures = @ + 1,
                                                    !.delays = waited]
       IN  IF LoopCondition(attempt + 1, opts.maxRetries)
           THEN /\ dl' = ArmedAttempt([seen EXCEPT !.calls = @ + 1],
                                      attempt + 1)
                /\ pc' = "fetch"
                /\ UNCHANGED run
           ELSE /\ dl' = [seen EXCEPT !.active = FALSE,
                                      !.error = NextLastError(lastError, error)]
                /\ pc' = AfterFormat(dl.fmt)
                /\ run' = [run EXCEPT !.exhausted = @ \cup {<<i, dl.fmt>>}]
    /\ UNCHANGED <<diskVars, options, pure, clock, fonts, opts, fontData, i,
                   fontVars, hook>>

(***************************************************************************)
(* downloadFontsWithCache, lines 563-618                                   *)
(***************************************************************************)
\* mutant: the font is recorded whether or not a format was downloaded
PushFontAlways ==
    /\ pc = "push"
    /\ fontData' = Append(fontData, [name |-> fonts[i].name,
                                      woff |-> woffPath, woff2 |-> woff2Path])
    /\ pc' = IF i < Len(fonts) THEN "woff" ELSE "finish"
    /\ attempt' = 0
    /\ lastError' = NoError
    /\ dl' = NoDownload
    /\ UNCHANGED <<diskVars, options, pure, clock, fonts, opts, i, fontVars, run,
                   hook>>

\* mutant: the paths recorded are those of the font's URLs, fetched or not
PushFontFromUrls ==
    /\ pc = "push"
    /\ fontData' = IF hasSuccessfulDownload
                   THEN Append(fontData,
                          [name |-> fonts[i].name,
                           woff |-> IF fonts[i].url1 # NoUrl
                                    THEN FontsPath(basename(fonts[i].url1))
                                    ELSE NullPath,
                           woff2 |-> IF fonts[i].url2 # NoUrl
                                     THEN FontsPath(basename(fonts[i].url2))
                                     ELSE NullPath])
                   ELSE fontData
    /\ pc' = IF i < Len(fonts) THEN "woff" ELSE "finish"
    /\ attempt' = 0
    /\ lastError' = NoError
    /\ dl' = NoDownload
    /\ UNCHANGED <<diskVars, options, pure, clock, fonts, opts, i, fontVars, run,
                   hook>>

\* lines 563-586: record the font if a format was downloaded, next font
PushFont ==
    /\ pc = "push"
    /\ fontData' = IF hasSuccessfulDownload
                   THEN Append(fontData, [name |-> fonts[i].name,
                                          woff |-> woffPath,
                                          woff2 |-> woff2Path])
                   ELSE fontData
    /\ pc' = IF i < Len(fonts) THEN "woff" ELSE "finish"
    /\ attempt' = 0
    /\ lastError' = NoError
    /\ dl' = NoDownload
    /\ UNCHANGED <<diskVars, options, pure, clock, fonts, opts, i, fontVars, run,
                   hook>>

\* mutant: a failed write leaves a file that parses, but not to a state
SaveLeavesNull(state, result) ==
    IF result = "ok" THEN state
    ELSE IF result = "truncated" THEN JsonNull
    ELSE stateFile

\* saveFontCacheState (lines 378-385): the write succeeds, or fails before
\* the file is opened ("kept"), or after it was truncated ("truncated");
\* a failure is logged and swallowed
saveFontCacheState(state, result) ==
    IF result = "ok" THEN state
    ELSE IF result = "truncated" THEN UnparseableFile
    ELSE stateFile
SaveResults == {"ok", "kept", "truncated"}

\* mutant: the timestamp of the loaded state is carried over
NewCacheStateOldSync(f, data, now) ==
    StateValue("object", cacheState.lastSync, generateFontConfigHash(f), TRUE,
               data, CurrentVersion)

\* mutant: the last font downloaded is left out of the state
NewCacheStateWithoutLast(f, data, now) ==
    StateValue("object", now, generateFontConfigHash(f), TRUE,
               SubSeq(data, 1, Len(data) - 1), CurrentVersion)

\* mutant: the first font downloaded is left out of the state
NewCacheStateWithoutFirst(f, data, now) ==
    StateValue("object", now, generateFontConfigHash(f), TRUE,
               IF data = <<>> THEN data ELSE Tail(data), CurrentVersion)

\* the state of lines 595-600: lastSync is the time of the run
NewCacheState(f, data, now) ==
    StateValue("object", now, generateFontConfigHash(f), TRUE, data,
               CurrentVersion)

\* lines 588-617: write fonts.json, save the cache state, return fontData
Finish(result) ==
    /\ pc = "finish"
    /\ result \in SaveResults
    /\ fontsJson' = [exists |-> TRUE, fonts |-> fontData]
    /\ stateFile' = saveFontCacheState(NewCacheState(fonts, fontData, clock),
                                       result)
    /\ pc' = "idle"
    /\ run' = [run EXCEPT !.outcome = "returned", !.value = fontData,
                          !.saved = (result = "ok")]
    /\ hook' = HookAfterRun(FALSE)
    /\ NoLocals
    /\ UNCHANGED <<files, options, pure, clock, fonts, opts>>

(***************************************************************************)
(* Between two runs: the build environment                                 *)
(***************************************************************************)
\* the history of the last hook is dropped when the environment acts
HookForgotten == IF hook.kind = "direct" THEN hook ELSE NoHook

\* a font file is gone from public/fonts (not restored, removed by hand)
FileLost(n) ==
    /\ pc = "idle"
    /\ clock < MaxRuns
    /\ n \in DOMAIN files
    /\ files' = [m \in DOMAIN files \ {n} |-> files[m]]
    /\ run' = NoRun
    /\ hook' = HookForgotten
    /\ UNCHANGED <<fontsJson, stateFile, options, pure, clock, pc, fonts, opts,
                   fontData, i, fontVars, retryVars>>

\* what the state file may hold when the plugin did not write it
DamagedStates ==
    {MissingFile, UnparseableFile, JsonNull, EmptyObject}
    \cup (IF stateFile.kind = "object"
          THEN {[stateFile EXCEPT !.fontsIsArray = FALSE, !.fonts = <<>>]}
          ELSE {})
    \cup (IF stateFile.kind = "object" /\ stateFile.fontsIsArray
          THEN {[stateFile EXCEPT !.version = OlderVersion]}
          ELSE {})

\* the state file is lost or damaged
StateFileDamaged(v) ==
    /\ pc = "idle"
    /\ clock < MaxRuns
    /\ v \in DamagedStates
    /\ v # stateFile
    /\ stateFile' = v
    /\ run' = NoRun
    /\ hook' = HookForgotten
    /\ UNCHANGED <<files, fontsJson, options, pure, clock, pc, fonts, opts,
                   fontData, i, fontVars, retryVars>>

Next ==
    \/ \E f \in Configs : CallRaises(f)
    \/ \E f \in Configs : CacheHit(f)
    \/ \E f \in Configs : StartDownload(f)
    \/ DownloadWoff
    \/ DownloadWoff2
    \/ ResponseOk
    \/ \E w \in BOOLEAN : AttemptOk(w)
    \/ \E e \in AttemptFailures(dl.url, attempt) : AttemptFails(e)
    \/ PushFont
    \/ \E r \in SaveResults : Finish(r)
    \/ \E n \in DOMAIN files : FileLost(n)
    \/ \E v \in DamagedStates : StateFileDamaged(v)

Spec == Init /\ [][Next]_vars

(***************************************************************************)
(* The same calls with options nothing validates: the integration merges   *)
(* whatever it is given (fontDownloader.js line 10), and maxRetries goes   *)
(* into the loop condition of retryWithBackoff as it is.                   *)
(***************************************************************************)
UnvalidatedOptions ==
    { [maxRetries |-> m, retryDelay |-> 100] : m \in {-1, 0, 1} }

InitUnvalidated ==
    /\ files = EmptyDir
    /\ fontsJson = NoFontsJson
    /\ stateFile = MissingFile
    /\ options \in UnvalidatedOptions
    /\ clock = 0
    /\ pc = "idle"
    /\ fonts = <<>>
    /\ opts = defaultOptions
    /\ fontData = <<>>
    /\ i = 0
    /\ woffPath = NullPath
    /\ woff2Path = NullPath
    /\ hasSuccessfulDownload = FALSE
    /\ attempt = 0
    /\ lastError = NoError
    /\ dl = NoDownload
    /\ run = NoRun
    /\ hook = DirectCalls
    /\ pure = NoPure


(***************************************************************************)
(* The same calls with the scheduling of the runtime: a continuation that  *)
(* can run does run, and a fetch in flight delivers its response, its body *)
(* or a failure.  The build environment may act or not.                    *)
(***************************************************************************)
RetryOptions == { [maxRetries |-> m, retryDelay |-> 100] : m \in {0, 1} }

InitLive ==
    /\ files = EmptyDir
    /\ fontsJson = NoFontsJson
    /\ stateFile = MissingFile
    /\ options \in RetryOptions
    /\ clock = 0
    /\ pc = "idle"
    /\ fonts = <<>>
    /\ opts = defaultOptions
    /\ fontData = <<>>
    /\ i = 0
    /\ woffPath = NullPath
    /\ woff2Path = NullPath
    /\ hasSuccessfulDownload = FALSE
    /\ attempt = 0
    /\ lastError = NoError
    /\ dl = NoDownload
    /\ run = NoRun
    /\ hook = DirectCalls
    /\ pure = NoPure

\* the steps of a call that has begun
Continues ==
    \/ DownloadWoff
    \/ DownloadWoff2
    \/ ResponseOk
    \/ \E w \in BOOLEAN : AttemptOk(w)
    \/ \E e \in AttemptFailures(dl.url, attempt) : AttemptFails(e)
    \/ PushFont
    \/ \E r \in SaveResults : Finish(r)

SpecLive == InitLive /\ [][Next]_vars /\ WF_vars(Continues)

SpecUnvalidated == InitUnvalidated /\ [][Next]_vars

(***************************************************************************)
(* The same calls with a configuration in which two fonts have files of    *)
(* the same name at different URLs (the CMS stores each upload in a        *)
(* directory of its own; the local name is path.basename of the URL).      *)
(***************************************************************************)
FontD == [name |-> "display", url1 |-> NoUrl, url2 |-> U("v2", "bold.woff2")]
SameNameConfigs == { <<FontB, FontD>> }

NextSameName ==
    \/ \E f \in SameNameConfigs : CallRaises(f)
    \/ \E f \in SameNameConfigs : CacheHit(f)
    \/ \E f \in SameNameConfigs : StartDownload(f)
    \/ DownloadWoff
    \/ DownloadWoff2
    \/ ResponseOk
    \/ \E w \in BOOLEAN : AttemptOk(w)
    \/ \E e \in AttemptFailures(dl.url, attempt) : AttemptFails(e)
    \/ PushFont
    \/ \E r \in SaveResults : Finish(r)
    \/ \E n \in DOMAIN files : FileLost(n)
    \/ \E v \in DamagedStates : StateFileDamaged(v)

SpecSameName == Init /\ [][NextSameName]_vars

(***************************************************************************)
(* The entry points of a build: onPreBuild (lines 623-707) and the hook    *)
(* astro:config:setup (fontDownloader.js 15-83)                            *)
(***************************************************************************)
\* `${API_URL}/global.json`
GlobalUrl == <<"cms", "global.json">>

\* the options onPreBuild fetches global.json with (lines 668-672)
PreBuildOptions == [timeout |-> 30000, maxRetries |-> 3, retryDelay |-> 1000]

\* the option bags the Astro integration of a build is made with
BuildOptions == { [maxRetries |-> 0, retryDelay |-> 100] }

\* what global.json parses to: nothing (JSON.parse throws), or an object
\* whose font field is missing or an empty list, or a font list
ParseResults ==
    { [ok |-> FALSE, fonts |-> <<>>] }
    \cup { [ok |-> TRUE, fonts |-> f] : f \in Configs \cup {<<>>} }

\* mutant: without KIRBY_URL the hook goes on
SkipsWithoutUrlNever(kirbyUrl) == FALSE

\* if (!API_URL) return (line 660; fontDownloader.js 46)
SkipsWithoutUrl(kirbyUrl) == ~kirbyUrl

\* mutant: a failed enumeration is treated as an empty font list
FontsJsonAfterFailureEmptied(parsed, file) ==
    IF parsed.fonts = <<>> THEN [exists |-> TRUE, fonts |-> <<>>]
    ELSE file

\* fonts.json after global.json was parsed: written with an empty list when
\* global.font is missing or empty (lines 677-685; fontDownloader.js 61-69)
FontsJsonAfterEnumeration(parsed, file) ==
    IF parsed.ok /\ parsed.fonts = <<>> THEN [exists |-> TRUE, fonts |-> <<>>]
    ELSE file

\* onPreBuild is called (lines 623-632): it awaits utils.cache.restore
OnPreBuild(kirbyUrl, netlify) ==
    /\ pc = "idle"
    /\ hook.kind # "direct"
    /\ clock < MaxRuns
    /\ hook' = [NoHook EXCEPT !.kind = "onPreBuild", !.kirbyUrl = kirbyUrl,
                              !.netlify = netlify]
    /\ pc' = "restore"
    /\ run' = NoRun
    /\ UNCHANGED <<diskVars, options, pure, clock, fonts, opts, fontData, i,
                   fontVars, retryVars>>

\* mutant: a restore that fails ends the hook like any other error
RestoreDoneOrRaise(ok) ==
    /\ pc = "restore"
    /\ IF SkipsWithoutUrl(hook.kirbyUrl) \/ ~ok
       THEN /\ hook' = [hook EXCEPT !.restored = IF ok THEN "ok" ELSE "failed",
                                    !.result = HookResult(hook, ~ok)]
            /\ pc' = "idle"
            /\ UNCHANGED <<opts, retryVars, run>>
       ELSE /\ hook' = [hook EXCEPT !.restored = "ok"]
            /\ opts' = PreBuildOptions
            /\ BeginDownload(GlobalUrl, "global", 0)
    /\ UNCHANGED <<diskVars, options, pure, clock, fonts, fontData, i, fontVars>>

\* lines 633-672: the restore has ended, well or not (the catch of line 649
\* only warns); without KIRBY_URL the hook returns, else it fetches
\* global.json
RestoreDone(ok) ==
    /\ pc = "restore"
    /\ IF SkipsWithoutUrl(hook.kirbyUrl)
       THEN /\ hook' = [hook EXCEPT !.restored = IF ok THEN "ok" ELSE "failed",
                                    !.result = "returned"]
            /\ pc' = "idle"
            /\ UNCHANGED <<opts, retryVars, run>>
       ELSE /\ hook' = [hook EXCEPT !.restored = IF ok THEN "ok" ELSE "failed"]
            /\ opts' = PreBuildOptions
            /\ BeginDownload(GlobalUrl, "global", 0)
    /\ UNCHANGED <<diskVars, options, pure, clock, fonts, fontData, i, fontVars>>

\* what onPreBuild did in the build that goes on with the Astro hook: the
\* hook follows an onPreBuild that returned in the same environment (a
\* build whose onPreBuild raised has stopped)
PreBuildOf(netlify, kirbyUrl) ==
    IF /\ hook.kind = "onPreBuild"
       /\ hook.result = "returned"
       /\ hook.netlify = netlify
       /\ hook.kirbyUrl = kirbyUrl
    THEN IF hook.enumerated = "none" THEN "skipped" ELSE "ran"
    ELSE "none"

\* astro:config:setup is called (fontDownloader.js 15-55): it returns at
\* once in development mode, on Netlify, or without KIRBY_URL, else it
\* fetches global.json with the options of the integration
AstroSetup(dev, netlify, kirbyUrl) ==
    /\ pc = "idle"
    /\ hook.kind # "direct"
    /\ clock < MaxRuns
    /\ IF dev \/ netlify \/ SkipsWithoutUrl(kirbyUrl)
       THEN /\ hook' = [NoHook EXCEPT !.kind = "astro", !.kirbyUrl = kirbyUrl,
                                     !.netlify = netlify, !.dev = dev,
                                     !.preBuild = PreBuildOf(netlify, kirbyUrl),
                                     !.result = "returned"]
            /\ pc' = "idle"
            /\ run' = NoRun
            /\ UNCHANGED <<opts, retryVars>>
       ELSE /\ hook' = [NoHook EXCEPT !.kind = "astro", !.kirbyUrl = kirbyUrl,
                                     !.netlify = netlify, !.dev = dev,
                                     !.preBuild = PreBuildOf(netlify, kirbyUrl)]
            /\ opts' = MergeOptions(defaultOptions, options)
            /\ attempt' = 0
            /\ lastError' = NoError
            /\ dl' = ArmedAttempt([NoDownload EXCEPT !.url = GlobalUrl,
                                                      !.fmt = "global",
                                                      !.calls = 1], 0)
            /\ pc' = "fetch"
            /\ run' = [NoRun EXCEPT !.fetchLog = <<GlobalUrl>>]
    /\ UNCHANGED <<diskVars, options, pure, clock, fonts, fontData, i, fontVars>>

\* global.json has arrived and is parsed (lines 674-692; fontDownloader.js
\* 56-77): a parse error goes to the catch of the hook; an empty font list
\* makes it write an empty fonts.json and return; else it calls
\* downloadFontsWithCache
GlobalFetched(parsed) ==
    /\ pc = "fetch"
    /\ dl.fmt = "global"
    /\ dl.phase = "body"
    /\ parsed \in ParseResults
    /\ fontsJson' = FontsJsonAfterEnumeration(parsed, fontsJson)
    /\ IF ~parsed.ok
       THEN /\ hook' = [hook EXCEPT !.enumerated = "failed",
                                    !.result = HookResult(hook, TRUE)]
            /\ pc' = "idle"
       ELSE IF parsed.fonts = <<>>
       THEN /\ hook' = [hook EXCEPT !.enumerated = "empty",
                                    !.result = "returned"]
            /\ pc' = "idle"
       ELSE /\ hook' = [hook EXCEPT !.enumerated = "fonts",
                                    !.fonts = parsed.fonts]
            /\ pc' = "call"
    /\ attempt' = 0
    /\ lastError' = NoError
    /\ dl' = NoDownload
    /\ UNCHANGED <<files, stateFile, options, pure, clock, fonts, opts, fontData, i,
                   fontVars, run>>

\* an attempt to fetch global.json fails (lines 290-296): wait and fetch
\* again, or throw lastError into the catch of the hook
GlobalAttemptFails(error) ==
    /\ pc = "fetch"
    /\ dl.fmt = "global"
    /\ error \in FailuresIn(dl.phase, dl.url, attempt)
    /\ LET waited == IF WaitsBeforeRetry(attempt, opts.maxRetries)
                     THEN Append(dl.delays, BackoffDelay(opts.retryDelay, attempt))
                     ELSE dl.delays
           seen == [FailedAttempt(dl, error) EXCEPT !.failures = @ + 1,
                                                    !.delays = waited]
       IN  IF LoopCondition(attempt + 1, opts.maxRetries)
           THEN /\ dl' = ArmedAttempt([seen EXCEPT !.calls = @ + 1],
                                      attempt + 1)
                /\ lastError' = NextLastError(lastError, error)
                /\ attempt' = attempt + 1
                /\ pc' = "fetch"
                /\ UNCHANGED hook
           ELSE /\ dl' = NoDownload
                /\ lastError' = NoError
                /\ attempt' = 0
                /\ pc' = "idle"
                /\ hook' = [hook EXCEPT !.enumerated = "failed",
                                        !.result = HookResult(hook, TRUE)]
    /\ UNCHANGED <<diskVars, options, pure, clock, fonts, opts, fontData, i,
                   fontVars, run>>

InitBuild ==
    /\ files = EmptyDir
    /\ fontsJson = NoFontsJson
    /\ stateFile = MissingFile
    /\ options \in BuildOptions
    /\ clock = 0
    /\ pc = "idle"
    /\ fonts = <<>>
    /\ opts = defaultOptions
    /\ fontData = <<>>
    /\ i = 0
    /\ woffPath = NullPath
    /\ woff2Path = NullPath
    /\ hasSuccessfulDownload = FALSE
    /\ attempt = 0
    /\ lastError = NoError
    /\ dl = NoDownload
    /\ run = NoRun
    /\ hook = NoHook
    /\ pure = NoPure

NextBuild ==
    \/ \E k, n \in BOOLEAN : OnPreBuild(k, n)
    \/ \E ok \in BOOLEAN : RestoreDone(ok)
    \/ \E d, n, k \in BOOLEAN : AstroSetup(d, n, k)
    \/ \E parsed \in ParseResults : GlobalFetched(parsed)
    \/ \E e \in AttemptFailures(dl.url, attempt) : GlobalAttemptFails(e)
    \/ \E f \in Configs : CallRaises(f)
    \/ \E f \in Configs : CacheHit(f)
    \/ \E f \in Configs : StartDownload(f)
    \/ DownloadWoff
    \/ DownloadWoff2
    \/ ResponseOk
    \/ \E w \in BOOLEAN : AttemptOk(w)
    \/ \E e \in AttemptFailures(dl.url, attempt) : AttemptFails(e)
    \/ PushFont
    \/ \E r \in SaveResults : Finish(r)
    \/ \E n \in DOMAIN files : FileLost(n)
    \/ \E v \in DamagedStates : StateFileDamaged(v)

SpecBuild == InitBuild /\ [][NextBuild]_vars

(***************************************************************************)
(* generateFontConfigHash applied by itself to parsed font lists.          *)
(*                                                                         *)
(* A parsed JSON object is the sequence of its <<key, value>> pairs in     *)
(* insertion order (the order JSON.stringify would write them in).  The    *)
(* function reads f.name, f.url1 and f.url2 of every entry and serializes  *)
(* the new objects it builds from them, keys in that fixed order.          *)
(***************************************************************************)
FontKeys == {"name", "url1", "url2"}
KeyOrders == { <<"name", "url1", "url2">>,
               <<"url2", "url1", "name">>,
               <<"url1", "name", "url2">> }
\* a field of the CMS entry the function never reads
ExtraField == <<"id", "f1">>

\* the object global.json may hold for a font: its three fields in some key
\* order, with or without a further field in front
JsonFont(font, order, extra) ==
    LET own == [j \in 1..3 |-> <<order[j], font[order[j]]>>]
    IN  IF extra THEN <<ExtraField>> \o own ELSE own

\* the orders a list of fonts can come in
Reorderings(list) ==
    { [n \in 1..Len(list) |-> list[p[n]]] : p \in Permutations(1..Len(list)) }
FontLists == UNION { Reorderings(c) : c \in Configs }
JsonLists ==
    { [n \in 1..Len(list) |-> JsonFont(list[n], order, extra)] :
        list \in FontLists, order \in KeyOrders, extra \in BOOLEAN }

\* f.key on a parsed object
FieldOf(obj, key) ==
    LET at == { j \in 1..Len(obj) : obj[j][1] = key }
    IN  IF at = {} THEN NoUrl ELSE obj[CHOOSE j \in at : TRUE][2]

\* fonts.map(f => ({name: f.name, url1: f.url1, url2: f.url2}))
FontsOf(list) ==
    [n \in 1..Len(list) |-> [name |-> FieldOf(list[n], "name"),
                             url1 |-> FieldOf(list[n], "url1"),
                             url2 |-> FieldOf(list[n], "url2")]]

\* mutant: JSON.stringify(fonts), the entries as they were parsed
HashOfWholeObjects(list) == <<list>>

\* generateFontConfigHash on a parsed list
HashOfParsed(list) == generateFontConfigHash(FontsOf(list))

InitPure ==
    /\ files = EmptyDir
    /\ fontsJson = NoFontsJson
    /\ stateFile = MissingFile
    /\ options = defaultOptions
    /\ clock = 0
    /\ pc = "idle"
    /\ fonts = <<>>
    /\ opts = defaultOptions
    /\ fontData = <<>>
    /\ i = 0
    /\ woffPath = NullPath
    /\ woff2Path = NullPath
    /\ hasSuccessfulDownload = FALSE
    /\ attempt = 0
    /\ lastError = NoError
    /\ dl = NoDownload
    /\ run = NoRun
    /\ hook = NoHook
    /\ \E a \in JsonLists, b \in JsonLists :
          pure = [NoPure EXCEPT !.step = "in", !.a = a, !.b = b]

HashLists ==
    /\ pure.step = "in"
    /\ pure' = [pure EXCEPT !.step = "hashed",
                            !.ha = HashOfParsed(pure.a),
                            !.hb = HashOfParsed(pure.b)]
    /\ UNCHANGED <<diskVars, fontVars, retryVars, options, clock, pc, fonts,
                   opts, fontData, i, run, hook>>

HashAgain ==
    /\ pure.step = "hashed"
    /\ pure' = [pure EXCEPT !.step = "again", !.ha2 = HashOfParsed(pure.a)]
    /\ UNCHANGED <<diskVars, fontVars, retryVars, options, clock, pc, fonts,
                   opts, fontData, i, run, hook>>

NextPure == HashLists \/ HashAgain

SpecPure == InitPure /\ [][NextPure]_vars

(***************************************************************************)
(* createTimer (timing.js).  `pure` holds the closure variable startTime,  *)
(* the reading of performance.now() at the last call, and the calls made   *)
(* on the timer with how each ended.  A reading of performance.now() is    *)
(* the time since the process began and is positive; null is NullTime.     *)
(* The formatted field of a result is left out.                            *)
(***************************************************************************)
NullTime == 0
FirstReading == 1
\* the time that may pass between two calls
Elapses == {0, 1}

\* mutant: end() leaves startTime as it is
StartTimeKeptAfterEnd(startTime) == startTime

\* line 37 of end(): reset for reuse
StartTimeAfterEnd(startTime) == NullTime

\* createTimer(): line 13
NewTimer ==
    [step |-> "timer", startTime |-> NullTime, now |-> FirstReading,
     calls |-> <<>>, results |-> <<>>, ms |-> 0]

TimerVarsUnchanged ==
    UNCHANGED <<diskVars, fontVars, retryVars, options, clock, pc, fonts,
                opts, fontData, i, run, hook>>

\* the call op is made when performance.now() reads now: how it ends
TimerCalled(op, now, result) ==
    [pure EXCEPT !.now = now,
                 !.calls = Append(@, op),
                 !.results = Append(@, result)]

\* start(): lines 19-21
TimerStart(d) ==
    /\ pure.step = "timer"
    /\ Len(pure.calls) < MaxCalls
    /\ pure' = [TimerCalled("start", pure.now + d, "ok")
                   EXCEPT !.startTime = pure.now + d]
    /\ TimerVarsUnchanged

\* end(): lines 28-40
TimerEnd(d) ==
    /\ pure.step = "timer"
    /\ Len(pure.calls) < MaxCalls
    /\ pure' = IF pure.startTime = NullTime
               THEN TimerCalled("end", pure.now, "raised")
               ELSE [TimerCalled("end", pure.now + d, "ok")
                        EXCEPT !.ms = pure.now + d - pure.startTime,
                               !.startTime = StartTimeAfterEnd(@)]
    /\ TimerVarsUnchanged

\* peek(): lines 47-56
TimerPeek(d) ==
    /\ pure.step = "timer"
    /\ Len(pure.calls) < MaxCalls
    /\ pure' = IF pure.startTime = NullTime
               THEN TimerCalled("peek", pure.now, "raised")
               ELSE [TimerCalled("peek", pure.now + d, "ok")
                        EXCEPT !.ms = pure.now + d - pure.startTime]
    /\ TimerVarsUnchanged

InitTimer ==
    /\ files = EmptyDir
    /\ fontsJson = NoFontsJson
    /\ stateFile = MissingFile
    /\ options = defaultOptions
    /\ clock = 0
    /\ pc = "idle"
    /\ fonts = <<>>
    /\ opts = defaultOptions
    /\ fontData = <<>>
    /\ i = 0
    /\ woffPath = NullPath
    /\ woff2Path = NullPath
    /\ hasSuccessfulDownload = FALSE
    /\ attempt = 0
    /\ lastError = NoError
    /\ dl = NoDownload
    /\ run = NoRun
    /\ hook = NoHook
    /\ pure = NewTimer

NextTimer ==
    \/ \E d \in Elapses : TimerStart(d)
    \/ \E d \in Elapses : TimerEnd(d)
    \/ \E d \in Elapses : TimerPeek(d)

SpecTimer == InitTimer /\ [][NextTimer]_vars

(***************************************************************************)
(* sanitizePath (validation.js).  A string is the sequence of its          *)
(* characters.  path.posix.normalize works on "/" only; path.isAbsolute    *)
(* and the join of the caller are those of the platform the build runs on. *)
(***************************************************************************)
PathChars == {"a", ".", "/", "\\"}
Platforms == {"posix", "win32"}
Dot == <<".">>
DotDot == <<".", ".">>

\* the strings of at most n characters
RECURSIVE StringsUpTo(_)
StringsUpTo(n) ==
    IF n = 0 THEN { <<>> }
    ELSE LET shorter == StringsUpTo(n - 1)
         IN  shorter \cup { Append(t, c) : t \in shorter, c \in PathChars }

\* s.split(separator) for one-character separators seps
RECURSIVE SplitOn(_, _)
SplitOn(str, seps) ==
    IF \A k \in 1..Len(str) : str[k] \notin seps THEN <<str>>
    ELSE LET at == CHOOSE k \in 1..Len(str) :
                      /\ str[k] \in seps
                      /\ \A j \in 1..(k - 1) : str[j] \notin seps
         IN  <<SubSeq(str, 1, at - 1)>>
                 \o SplitOn(SubSeq(str, at + 1, Len(str)), seps)

\* segments.join("/")
RECURSIVE JoinSlash(_)
JoinSlash(segments) ==
    IF Len(segments) = 0 THEN <<>>
    ELSE IF Len(segments) = 1 THEN segments[1]
    ELSE segments[1] \o <<"/">> \o JoinSlash(Tail(segments))

\* normalizeString of path.posix: "." and empty segments go, ".." takes the
\* segment before it unless there is none or it is ".." itself
RECURSIVE NormalizeSegments(_, _, _)
NormalizeSegments(segments, res, allowAboveRoot) ==
    IF Len(segments) = 0 THEN res
    ELSE LET seg == segments[1]
             rest == Tail(segments)
         IN  IF seg = <<>> \/ seg = Dot
             THEN NormalizeSegments(rest, res, allowAboveRoot)
             ELSE IF seg = DotDot
             THEN IF Len(res) > 0 /\ res[Len(res)] # DotDot
                  THEN NormalizeSegments(rest, SubSeq(res, 1, Len(res) - 1),
                                         allowAboveRoot)
                  ELSE IF allowAboveRoot
                  THEN NormalizeSegments(rest, Append(res, seg),
                                         allowAboveRoot)
                  ELSE NormalizeSegments(rest, res, allowAboveRoot)
             ELSE NormalizeSegments(rest, Append(res, seg), allowAboveRoot)

\* path.posix.normalize
PosixNormalize(str) ==
    IF Len(str) = 0 THEN Dot
    ELSE LET isAbs == str[1] = "/"
             trailing == str[Len(str)] = "/"
             body == JoinSlash(NormalizeSegments(SplitOn(str, {"/"}), <<>>,
                                                 ~isAbs))
         IN  IF Len(body) = 0
             THEN IF isAbs THEN <<"/">>
                  ELSE IF trailing THEN <<".", "/">> ELSE Dot
             ELSE (IF isAbs THEN <<"/">> ELSE <<>>)
                     \o body
                     \o (IF trailing THEN <<"/">> ELSE <<>>)

\* String.prototype.startsWith and includes
StartsWith(str, sub) ==
    Len(str) >= Len(sub) /\ SubSeq(str, 1, Len(sub)) = sub
Includes(str, sub) ==
    \E k \in 1..(Len(str) - Len(sub) + 1) :
        SubSeq(str, k, k + Len(sub) - 1) = sub

\* path.isAbsolute of the platform (no drive letters among the characters)
IsAbsolute(platform, str) ==
    /\ Len(str) > 0
    /\ IF platform = "posix" THEN str[1] = "/" ELSE str[1] \in {"/", "\\"}

\* the condition of lines 147-152
Traversal(normalized) ==
    \/ StartsWith(normalized, <<".", ".", "/">>)
    \/ Includes(normalized, <<"/", ".", ".", "/">>)
    \/ Includes(normalized, <<".", ".", "\\">>)
    \/ normalized = DotDot

\* sanitizePath(inputPath) on platform: raised, or the value returned
sanitizePath(platform, inputPath) ==
    IF Len(inputPath) = 0 THEN [raised |-> TRUE, value |-> <<>>]
    ELSE LET normalized == PosixNormalize(inputPath)
         IN  IF Traversal(normalized)
             THEN [raised |-> TRUE, value |-> <<>>]
             ELSE IF IsAbsolute(platform, normalized)
             THEN [raised |-> TRUE, value |-> <<>>]
             ELSE [raised |-> FALSE, value |-> normalized]

\* the separators of the platform, for the join of the caller
Separators(platform) ==
    IF platform = "posix" THEN {"/"} ELSE {"/", "\\"}

NoSanitized ==
    [step |-> "path", platform |-> "posix", input |-> <<>>, raised |-> FALSE,
     value |-> <<>>]

InitPath ==
    /\ files = EmptyDir
    /\ fontsJson = NoFontsJson
    /\ stateFile = MissingFile
    /\ options = defaultOptions
    /\ clock = 0
    /\ pc = "idle"
    /\ fonts = <<>>
    /\ opts = defaultOptions
    /\ fontData = <<>>
    /\ i = 0
    /\ woffPath = NullPath
    /\ woff2Path = NullPath
    /\ hasSuccessfulDownload = FALSE
    /\ attempt = 0
    /\ lastError = NoError
    /\ dl = NoDownload
    /\ run = NoRun
    /\ hook = NoHook
    /\ \E platform \in Platforms, input \in StringsUpTo(MaxPathLen) :
          pure = [NoSanitized EXCEPT !.platform = platform, !.input = input]

Sanitize ==
    /\ pure.step = "path"
    /\ LET result == sanitizePath(pure.platform, pure.input)
       IN  pure' = [pure EXCEPT !.step = "sanitized",
                                !.raised = result.raised,
                                !.value = result.value]
    /\ TimerVarsUnchanged

NextPath == Sanitize

SpecPath == InitPath /\ [][NextPath]_vars

(***************************************************************************)
(* Properties of retryWithBackoff and downloadFont                         *)
(***************************************************************************)
\* a downloadFont call has ended (its result is in dl)
DownloadEnded == dl.url # NoUrl /\ ~dl.active

\* C1: a download that succeeds after k failed attempts (k <= maxRetries) has
\* made exactly k + 1 attempts and returns the fetched bytes; a download whose
\* attempts all fail has made exactly maxRetries + 1 attempts and raises.
AttemptCount ==
    /\ dl.active => /\ dl.calls = dl.failures + 1
                    /\ dl.calls <= opts.maxRetries + 1
    /\ DownloadEnded /\ dl.ok =>
          /\ dl.calls = dl.failures + 1
          /\ dl.failures <= opts.maxRetries
          /\ dl.value = BodyOf(dl.url)
    /\ DownloadEnded /\ ~dl.ok =>
          /\ dl.calls = opts.maxRetries + 1
          /\ dl.failures = dl.calls
          /\ dl.error.kind # "none"

\* C1 witness: two failures, then success, with maxRetries = 3: 3 attempts
TwoFailuresThenSuccess ==
    /\ DownloadEnded /\ dl.ok
    /\ opts.maxRetries = 3
    /\ dl.failures = 2
    /\ dl.calls = 3

\* C2: the n-th wait of a download is retryDelay * 2^(n-1), and there are
\* exactly as many waits as retries begun: none after the successful attempt,
\* none after the last failed one.
BackoffSchedule ==
    dl.url # NoUrl =>
       /\ \A n \in 1..Len(dl.delays) :
             dl.delays[n] = opts.retryDelay * (2 ^ (n - 1))
       /\ Len(dl.delays) = dl.calls - 1

\* C2 witness: base delay 100, the waits were 100 then 200, then success
WaitedHundredThenTwoHundred ==
    /\ DownloadEnded /\ dl.ok
    /\ dl.delays = <<100, 200>>

\* lastError is a "not found" response of the download in dl
LastWasNotFound == lastError.kind = "http" /\ lastError.status = 404

\* C3 (as claimed): a 404 response ends the download at once, with exactly
\* one attempt made, whatever maxRetries is.
NotFoundEndsDownload ==
    LastWasNotFound => ~dl.active /\ dl.calls = 1

\* C3 (amended): a 404 response is a failed attempt like any other: while
\* the retry budget lasts it is followed by the backoff wait and one more
\* attempt, and it ends the download only as the failure of attempt
\* maxRetries + 1; a single attempt is made only when maxRetries = 0.
NotFoundIsRetried ==
    LastWasNotFound =>
       IF lastError.at < opts.maxRetries
       THEN /\ dl.calls = lastError.at + 2
            /\ Len(dl.delays) = lastError.at + 1
       ELSE /\ DownloadEnded /\ ~dl.ok
            /\ dl.calls = opts.maxRetries + 1

\* C3 witness: the first attempt got a 404 and a second attempt is in flight
RetryInFlightAfterNotFound ==
    /\ LastWasNotFound
    /\ lastError.at = 0
    /\ dl.active
    /\ dl.calls = 2

\* C4 (as claimed): the failure of an exhausted download carries the URL
\* that was fetched and the cause of the last attempt.
ExhaustedFailureNamesUrl ==
    DownloadEnded /\ ~dl.ok =>
       /\ dl.error.locator = dl.url
       /\ dl.error.at = dl.calls - 1

\* C4 (amended): the failure of an exhausted download is the error object of
\* the last attempt (not of an earlier one), rethrown as it is: downloadFont
\* adds nothing to it, and the error it builds for a response that is not ok
\* holds the status only, not the URL.
ExhaustedFailureIsLastError ==
    DownloadEnded /\ ~dl.ok =>
       /\ dl.error = lastError
       /\ dl.error.at = opts.maxRetries
       /\ dl.error \in AttemptFailures(dl.url, dl.calls - 1)
       /\ dl.error.kind = "http" => dl.error.locator = NoUrl

\* C4 witness: retries exhausted, the last of several attempts got a 503
ExhaustedAfterRetries ==
    /\ DownloadEnded /\ ~dl.ok
    /\ dl.calls >= 3
    /\ dl.error.kind = "http"
    /\ dl.error.status = 503

(***************************************************************************)
(* Properties of downloadFontsWithCache                                    *)
(***************************************************************************)
\* a step that calls downloadFontsWithCache(fonts'), the disk being as the
\* unprimed state has it
CallStep == pc = "idle" /\ clock' = clock + 1
\* a step of the plugin (not of the build environment)
ProgramStep == pc # "idle" \/ clock' # clock

\* the paths a cached font list names
CachedPaths(list) ==
    UNION { {list[k].woff, list[k].woff2} \ {NullPath} : k \in 1..Len(list) }
\* the hash the state file on disk records, if it records one
RecordedHash == IF stateFile.kind = "object" THEN stateFile.configHash ELSE NoHash
\* the state file on disk lists a font file that public/fonts lacks
CachedFileMissing ==
    /\ stateFile.kind = "object"
    /\ \E q \in CachedPaths(stateFile.fonts) : basename(q) \notin DOMAIN files
\* the state file on disk lists no font
CachedListEmpty == stateFile.kind = "object" /\ stateFile.fonts = <<>>

\* the case of C5: the state file records the hash of f and a non-empty
\* font list, and every file of that list is in public/fonts
CacheHitCase(f) ==
    /\ stateFile.kind = "object"
    /\ stateFile.configHash = generateFontConfigHash(f)
    /\ stateFile.fontsIsArray
    /\ stateFile.fonts # <<>>
    /\ ~CachedFileMissing

\* C5: a call in the cache-hit case returns at once with exactly the cached
\* font list, having fetched nothing and deleted or changed no font file, and
\* leaves the state file as it was, but possibly for its timestamp.
CacheHitCorrect ==
    [][ CallStep /\ CacheHitCase(fonts') =>
          /\ pc' = "idle"
          /\ run'.outcome = "returned"
          /\ run'.value = stateFile.fonts
          /\ run'.fetchLog = <<>>
          /\ files' = files
          /\ [stateFile' EXCEPT !.lastSync = stateFile.lastSync] = stateFile
      ]_vars

\* C5 witness: the second run returned a cached list of fonts
SecondRunHitCache ==
    /\ run.path = "hit"
    /\ run.outcome = "returned"
    /\ clock = 2
    /\ run.value # <<>>
    /\ run.value = stateFile.fonts

\* C6 (as claimed): a run takes the download path only if the hash of its
\* configuration differs from the recorded one or a cached file is missing.
DownloadsOnlyOnChange ==
    [][ CallStep /\ run'.path = "download" =>
          \/ RecordedHash # generateFontConfigHash(fonts')
          \/ CachedFileMissing
      ]_vars

\* C6 (amended): a run takes the download path only if the hash of its
\* configuration differs from the recorded one, or a cached file is missing,
\* or the recorded font list is empty; with the configuration unchanged, a
\* non-empty cached list and all its files present it never downloads.
DownloadsOnlyOnChangeOrEmptyCache ==
    [][ CallStep /\ run'.path = "download" =>
          \/ RecordedHash # generateFontConfigHash(fonts')
          \/ CachedFileMissing
          \/ CachedListEmpty
      ]_vars

\* C6 witness: a run is downloading although the state file records its
\* configuration: the recorded font list is empty
DownloadsOnEmptyCache ==
    /\ run.path = "download"
    /\ pc = "fetch"
    /\ stateFile.kind = "object"
    /\ stateFile.configHash = generateFontConfigHash(fonts)
    /\ stateFile.fontsIsArray
    /\ stateFile.fonts = <<>>

\* C7: on the download path a font whose name and URLs are unchanged and
\* whose files are cached is not fetched again.
UnchangedFontsNotFetched ==
    \A n \in 1..Len(run.fetchLog) : \A k \in run.unchanged :
        run.fetchLog[n] \notin {fonts[k].url1, fonts[k].url2}

\* the URLs of a font
UrlsOf(font) == {font.url1, font.url2} \ {NoUrl}
\* the URL of a format of a font
UrlOf(font, fmt) == IF fmt = "woff" THEN font.url1 ELSE font.url2
\* the fonts of the run (by index) of which a format was fetched and written
Successful == { k \in 1..Len(fonts) : \E fmt \in {"woff", "woff2"} : <<k, fmt>> \in run.written }
\* the fonts of the run (by index) all of whose downloads ended in a failure
AllExhausted ==
    { k \in 1..Len(fonts) :
        /\ UrlsOf(fonts[k]) # {}
        /\ \A fmt \in {"woff", "woff2"} :
              UrlOf(fonts[k], fmt) # NoUrl => <<k, fmt>> \in run.exhausted }
\* the entry a successful font k has in the font list
EntryOf(k) ==
    [name |-> fonts[k].name,
     woff |-> IF <<k, "woff">> \in run.written
              THEN FontsPath(basename(fonts[k].url1)) ELSE NullPath,
     woff2 |-> IF <<k, "woff2">> \in run.written
               THEN FontsPath(basename(fonts[k].url2)) ELSE NullPath]
\* list is the list of the entries of the successful fonts, in the order of
\* the configuration
ListsSuccessful(list) ==
    /\ Len(list) = Cardinality(Successful)
    /\ \A k \in Successful :
          list[Cardinality({j \in Successful : j <= k})] = EntryOf(k)

\* C8: a run on the download path never raises; when it returns, downloadFont
\* was called for every URL of every font, whatever failed before, and
\* fonts.json and the saved cache state list exactly the fonts that had a
\* format fetched and written - none of those whose downloads all failed.
PartialFailureIsolated ==
    /\ run.path = "download" => run.outcome # "raised"
    /\ run.path = "download" /\ run.outcome = "returned" =>
          /\ \A k \in 1..Len(fonts) : \A u \in UrlsOf(fonts[k]) :
                \E n \in 1..Len(run.fetchLog) : run.fetchLog[n] = u
          /\ ListsSuccessful(run.value)
          /\ \A n \in 1..Len(run.value) : \A k \in AllExhausted :
                run.value[n].name # fonts[k].name
          /\ fontsJson = [exists |-> TRUE, fonts |-> run.value]
          /\ run.saved =>
                /\ stateFile.kind = "object"
                /\ stateFile.fontsIsArray
                /\ stateFile.fonts = run.value
                /\ stateFile.configHash = generateFontConfigHash(fonts)

\* C8 witness: the first font's downloads all failed, a later font succeeded,
\* the run returned and saved its state
FirstFontFailedOthersListed ==
    /\ run.path = "download"
    /\ run.outcome = "returned"
    /\ run.saved
    /\ 1 \in AllExhausted
    /\ \E k \in Successful : k > 1

\* the names of the files written for the <<font, format>> pairs of w
FileNamesWritten(w, f) == { basename(UrlOf(f[p[1]], p[2])) : p \in w }

ColdStartTolerated == run.outcome # "raised"

(***************************************************************************)
(* Properties of the persisted cache state                                 *)
(***************************************************************************)
\* the state file on disk is a well-formed state of another version
OtherVersionOnDisk ==
    /\ stateFile.kind = "object"
    /\ stateFile.fontsIsArray
    /\ stateFile.version # CurrentVersion

\* C11: a run that finds a state file of another version than the current
\* one treats it as empty: it ignores the recorded hash and fonts and takes
\* the download path.
OtherVersionIsEmpty ==
    [][ CallStep /\ OtherVersionOnDisk => run'.path = "download" ]_vars

\* C12: a failure to write the state file does not propagate: the run still
\* returns the list of the fonts it downloaded, and the file then holds what
\* it held before or loads as the empty state.  Whenever the plugin changes
\* the state file, the new content loads as the empty state or lists exactly
\* the fonts of this run, every file of which this run fetched and wrote.
SaveIsBestEffort ==
    [][ /\ pc = "finish" =>
              /\ pc' = "idle"
              /\ run'.outcome = "returned"
              /\ run'.value = fontData
              /\ ~run'.saved =>
                    \/ stateFile' = stateFile
                    \/ loadFontCacheState(stateFile') = FreshState
        /\ ProgramStep /\ stateFile' # stateFile =>
              \/ loadFontCacheState(stateFile') = FreshState
              \/ /\ stateFile'.fonts = fontData
                 /\ \A q \in CachedPaths(stateFile'.fonts) :
                       /\ basename(q) \in FileNamesWritten(run.written, fonts)
                       /\ basename(q) \in DOMAIN files'
      ]_vars

\* C12 witness: the second run downloaded fonts and returned them, its save
\* failed, and the state file still holds the state of the first run
SecondSaveFailedFirstStateKept ==
    /\ run.path = "download"
    /\ run.outcome = "returned"
    /\ ~run.saved
    /\ run.value # <<>>
    /\ clock = 2
    /\ stateFile.kind = "object"
    /\ stateFile.lastSync = 1
    /\ stateFile.fonts # <<>>

\* C13 (as claimed): every run that returns, on the cache-hit path or on the
\* download path (a run whose write of the state file failed aside), leaves
\* a state file whose lastSync is the time of that run.
EveryRunRefreshesLastSync ==
    run.outcome = "returned" /\ (run.path = "hit" \/ run.saved) =>
       /\ stateFile.kind = "object"
       /\ stateFile.lastSync = clock

\* C13 (amended): a run that returns on the download path and whose save
\* succeeded leaves a state file whose lastSync is the time of that run; a
\* run on the cache-hit path does not write the state file: its lastSync is
\* still the time of the earlier run that saved it.
LastSyncIsLastSave ==
    /\ run.outcome = "returned" /\ run.path = "download" /\ run.saved =>
          /\ stateFile.kind = "object"
          /\ stateFile.lastSync = clock
    /\ run.path = "hit" =>
          /\ stateFile.kind = "object"
          /\ 0 < stateFile.lastSync
          /\ stateFile.lastSync < clock

\* C13 witness: the second run hit the cache; lastSync is the first run's
HitKeepsFirstLastSync ==
    /\ run.path = "hit"
    /\ run.outcome = "returned"
    /\ clock = 2
    /\ stateFile.lastSync = 1

(***************************************************************************)
(* Properties of the clean-up                                              *)
(***************************************************************************)
\* the files of dir that no URL of the configuration f names
OrphansOf(dir, f) ==
    { n \in DOMAIN dir :
        \A k \in 1..Len(f) : \A u \in UrlsOf(f[k]) : basename(u) # n }

\* C15: a run on the download path that finds files of fonts the new
\* configuration still lists next to files of fonts it no longer lists
\* deletes exactly the latter.
RemovesExactlyOrphans ==
    [][ /\ CallStep
        /\ run'.path = "download"
        /\ OrphansOf(files, fonts') # {}
        /\ OrphansOf(files, fonts') # DOMAIN files
        => DOMAIN files \ DOMAIN files' = OrphansOf(files, fonts')
      ]_vars

(***************************************************************************)
(* Two runs in a row                                                       *)
(***************************************************************************)
\* the run that has just returned took the download path and every download
\* of it succeeded and was written
AllDownloaded ==
    /\ run.outcome = "returned"
    /\ run.path = "download"
    /\ run.exhausted = {}
    /\ \A k \in 1..Len(fonts) : \A fmt \in {"woff", "woff2"} :
          UrlOf(fonts[k], fmt) # NoUrl => <<k, fmt>> \in run.written

\* what C16 says of the run that follows
SecondRunChangesNothing ==
    /\ run'.path = "hit"
    /\ run'.outcome = "returned"
    /\ run'.fetchLog = <<>>
    /\ files' = files
    /\ fontsJson' = fontsJson
    /\ stateFile'.configHash = stateFile.configHash
    /\ stateFile'.fonts = stateFile.fonts

WriteFailed ==
    { p \in (1..Len(fonts)) \X {"woff", "woff2"} :
        /\ UrlOf(fonts[p[1]], p[2]) # NoUrl
        /\ p \notin run.written
        /\ p \notin run.exhausted }

\* C20 (as claimed): a run in which the write of a fetched font file failed
\* does not go on to return a font list: no run that returns from the
\* download path has had a write fail.
WriteFailureAborts ==
    run.path = "download" /\ run.outcome = "returned" => WriteFailed = {}

\* C20 (amended): the failure to write a fetched font file is caught like a
\* failed download of that format: the run does not raise, goes on with the
\* remaining formats and fonts, writes fonts.json and saves its state; no
\* entry of the returned list names the unwritten file.
WriteFailureSkipsFormat ==
    /\ run.path = "download" => run.outcome # "raised"
    /\ run.path = "download" /\ run.outcome = "returned" =>
          /\ \A p \in WriteFailed :
                FontsPath(basename(UrlOf(fonts[p[1]], p[2])))
                   \notin CachedPaths(run.value)
          /\ \A k \in 1..Len(fonts) : \A u \in UrlsOf(fonts[k]) :
                \E n \in 1..Len(run.fetchLog) : run.fetchLog[n] = u
          /\ fontsJson = [exists |-> TRUE, fonts |-> run.value]

\* C20 witness: the write of the first font's file failed, a later font was
\* downloaded and written, and the run returned and saved its state
WriteFailedRunWentOn ==
    /\ run.path = "download"
    /\ run.outcome = "returned"
    /\ run.saved
    /\ \E p \in WriteFailed : p[1] = 1
    /\ \E k \in Successful : k > 1
    /\ stateFile.fonts = run.value

(***************************************************************************)
(* Properties of the entry points (SpecBuild)                              *)
(***************************************************************************)
\* a hook has been called and has not been forgotten
InHook == hook.kind \in {"onPreBuild", "astro"}
\* a step of a hook
HookStep == hook'.kind \in {"onPreBuild", "astro"} /\ hook' # hook
\* the hook has ended
HookEnded == InHook /\ hook.result # "none"

\* every font file has an entry in the state file on disk
EveryFileHasEntry ==
    \A n \in DOMAIN files :
        /\ stateFile.kind = "object"
        /\ FontsPath(n) \in CachedPaths(stateFile.fonts)

FailurePolicy ==
    /\ hook.kind = "onPreBuild" /\ hook.enumerated = "failed" =>
          (hook.result = "raised") = ~hook.netlify
    /\ hook.kind = "onPreBuild" /\ hook.netlify => hook.result # "raised"

\* C18 witness: on Netlify the restore failed and then the enumeration, and
\* onPreBuild returned
PreBuildSurvivedOnNetlify ==
    /\ hook.kind = "onPreBuild"
    /\ hook.netlify
    /\ hook.restored = "failed"
    /\ hook.enumerated = "failed"
    /\ hook.result = "returned"

\* the hook is restoring the cache or fetching global.json
Enumerating(p, d) == p = "restore" \/ (p = "fetch" /\ d.fmt = "global")

PathOf(entry, fmt) == IF fmt = "woff" THEN entry.woff ELSE entry.woff2

\* list records nothing but what the run fetched and wrote: every entry is
\* that of a font of the configuration and has a path; every path it has is
\* that of a file this run wrote, which is on disk with the bytes fetched
RecordsOnlyWritten(list) ==
    \A n \in 1..Len(list) :
        /\ \E fmt \in {"woff", "woff2"} : PathOf(list[n], fmt) # NullPath
        /\ \E k \in 1..Len(fonts) :
              /\ fonts[k].name = list[n].name
              /\ \A fmt \in {"woff", "woff2"} :
                    PathOf(list[n], fmt) # NullPath =>
                       LET u == UrlOf(fonts[k], fmt)
                       IN  /\ <<k, fmt>> \in run.written
                           /\ PathOf(list[n], fmt) = FontsPath(basename(u))
                           /\ basename(u) \in DOMAIN files
                           /\ files[basename(u)] = BodyOf(u)

\* C21: on the download path the font list being built, and at the return
\* fonts.json and the saved cache state, record only paths of files this run
\* fetched and wrote; a format whose fetch or write failed has the null
\* path, and a font without a written format has no entry.
NoUnwrittenPathRecorded ==
    run.path = "download" =>
       /\ RecordsOnlyWritten(fontData)
       /\ run.outcome = "returned" =>
             /\ RecordsOnlyWritten(fontsJson.fonts)
             /\ run.saved => RecordsOnlyWritten(stateFile.fonts)
             /\ \A n \in 1..Len(fontsJson.fonts) :
                \A p \in run.exhausted \cup WriteFailed :
                   fontsJson.fonts[n].name = fonts[p[1]].name =>
                      PathOf(fontsJson.fonts[n], p[2]) = NullPath
             /\ \A k \in 1..Len(fonts) :
                   (\A fmt \in {"woff", "woff2"} : <<k, fmt>> \notin run.written)
                   => \A n \in 1..Len(fontsJson.fonts) :
                         fontsJson.fonts[n].name # fonts[k].name

\* C21 witness: the WOFF of a font failed and its WOFF2 was written; the run
\* returned and saved, and the entry of the font has a null WOFF path
HalfFontRecordedWithNull ==
    /\ run.path = "download"
    /\ run.outcome = "returned"
    /\ run.saved
    /\ \E k \in 1..Len(fonts) :
          /\ <<k, "woff">> \in run.exhausted
          /\ <<k, "woff2">> \in run.written
          /\ \E n \in 1..Len(stateFile.fonts) :
                /\ stateFile.fonts[n].name = fonts[k].name
                /\ stateFile.fonts[n].woff = NullPath
                /\ stateFile.fonts[n].woff2 # NullPath

(***************************************************************************)
(* The order of the requests                                               *)
(***************************************************************************)
\* C27: a request is in flight only inside a downloadFont call, and a
\* downloadFont call begins only when none is in flight: the call before it
\* has ended, with all its retries; the WOFF2 of a font is requested after
\* its WOFF has ended, the next font after the font before it was recorded.
OneRequestAtATime ==
    [][ /\ dl'.active /\ ~(dl.active /\ dl'.url = dl.url /\ dl'.fmt = dl.fmt)
           => /\ ~dl.active
              /\ dl'.calls = 1
              /\ pc \in {"woff", "woff2"}
              /\ dl'.fmt = pc
              /\ dl'.font = i'
              /\ pc = "woff" => i' = i + 1 /\ dl.url = NoUrl
              /\ pc = "woff2" => i' = i
        /\ dl'.active /\ dl.active
              => /\ dl'.url = dl.url
                 /\ \/ dl'.calls = dl.calls + 1
                    \/ /\ dl'.calls = dl.calls
                       /\ dl.phase = "headers"
                       /\ dl'.phase = "body"
        /\ dl'.active <=> pc' = "fetch"
      ]_vars

\* C27 witness: the WOFF2 of a font is in flight after all attempts for its
\* WOFF have failed
Woff2AfterWoffExhausted ==
    /\ pc = "fetch"
    /\ dl.active
    /\ dl.fmt = "woff2"
    /\ <<i, "woff">> \in run.exhausted
    /\ opts.maxRetries > 0

(***************************************************************************)
(* What the entry points leave behind (SpecBuild)                          *)
(***************************************************************************)
\* C29: an Astro hook that has called downloadFontsWithCache and returned
\* has fetched every URL of every font of the configuration, whatever the
\* cache state was.
AstroAlwaysDownloadsAll ==
    /\ hook.kind = "astro"
    /\ hook.enumerated = "fonts"
    /\ hook.result = "returned"
    => \A k \in 1..Len(hook.fonts) : \A u \in UrlsOf(hook.fonts[k]) :
          \E n \in 1..Len(run.fetchLog) : run.fetchLog[n] = u

\* C30: when onPreBuild has returned, fonts.json exists.
FontsJsonAfterPreBuild ==
    hook.kind = "onPreBuild" /\ hook.result = "returned" => fontsJson.exists

\* the Astro hook has run the pipeline: it did not return at once
AstroRan ==
    hook.kind = "astro" /\ ~(hook.enumerated = "none" /\ hook.result = "returned")

\* C28: the Astro hook runs the pipeline only when NODE_ENV is not
\* 'development' and NETLIFY is unset, and never in a build whose
\* onPreBuild has run it.
OneEntryPointRuns ==
    AstroRan => /\ ~hook.dev
                /\ ~hook.netlify
                /\ hook.preBuild # "ran"

(***************************************************************************)
(* Timers and abort handles of downloadFont                                *)
(***************************************************************************)
\* C24: as long as an attempt is in flight, from the start of the request to
\* the delivery of its body, the timer that aborts it is armed.
TimeoutCoversAttempt == dl.active => dl.controller \in dl.timers

\* C25: no timer is armed but that of the attempt in flight while it awaits
\* its response: the timer of an attempt is cleared (or has fired) when the
\* attempt returns or throws, so none is left when the next attempt starts
\* or when downloadFont has ended.
TimerReleased ==
    /\ dl.timers \subseteq (IF dl.active /\ dl.phase = "headers"
                             THEN {dl.controller} ELSE {})
    /\ DownloadEnded => dl.timers = {}

\* C25 witness: downloadFont has ended after several attempts, the last of
\* which died of a network error; no timer is armed
NoTimerAfterNetworkErrors ==
    /\ DownloadEnded
    /\ ~dl.ok
    /\ dl.failures >= 2
    /\ dl.error.kind = "network"
    /\ dl.timers = {}

\* C26: the abort handle of the attempt in flight has not been aborted,
\* whatever became of the attempts before it; its own timer is armed when it
\* starts, and no other timer is armed that could abort it.
FreshHandlePerAttempt ==
    dl.active =>
       /\ dl.controller \notin dl.aborted
       /\ dl.phase = "headers" => dl.controller \in dl.timers
       /\ \A c \in dl.timers : c = dl.controller
       /\ dl.aborted = {}

\* C26 witness: the first attempt was aborted by its timeout and the second
\* is in flight, its handle not aborted and its timer armed
SecondAttemptAfterTimeout ==
    /\ dl.active
    /\ dl.calls = 2
    /\ lastError.kind = "timeout"
    /\ lastError.at = 0
    /\ dl.phase = "headers"
    /\ dl.controller \notin dl.aborted
    /\ dl.timers = {dl.controller}


(***************************************************************************)
(* Properties of generateFontConfigHash                                    *)
(***************************************************************************)
\* the lists hold the same name, url1 and url2 at every position
SameFields(a, b) ==
    /\ Len(a) = Len(b)
    /\ \A n \in 1..Len(a) : \A key \in FontKeys :
          FieldOf(a[n], key) = FieldOf(b[n], key)

\* b holds the entries of a (by name, url1 and url2) in some order
IsReordering(a, b) ==
    /\ Len(a) = Len(b)
    /\ \E p \in Permutations(1..Len(a)) :
          \A n \in 1..Len(a) : \A key \in FontKeys :
              FieldOf(b[n], key) = FieldOf(a[p[n]], key)

\* the key order of an entry
KeysOf(obj) == [j \in 1..Len(obj) |-> obj[j][1]]

\* C22: two lists with the same name, url1 and url2 at every position have
\* the same hash, whatever the key order of their entries and whatever other
\* fields the entries carry; a second call on the same list returns the same
\* hash as the first.
HashReadsThreeFields ==
    /\ pure.step \in {"hashed", "again"} /\ SameFields(pure.a, pure.b)
          => pure.ha = pure.hb
    /\ pure.step = "again" => pure.ha2 = pure.ha

\* C22 witness: the same fonts, parsed with another key order and with a
\* further field, hashed to the same value, and hashed a second time
SameHashOtherKeyOrder ==
    /\ pure.step = "again"
    /\ SameFields(pure.a, pure.b)
    /\ KeysOf(pure.a[1]) = <<"name", "url1", "url2">>
    /\ KeysOf(pure.b[1]) = <<"id", "url2", "url1", "name">>
    /\ pure.ha = pure.hb
    /\ pure.ha2 = pure.ha

\* C23 (as stated; violated): a list with the same fonts in another order
\* has the same hash and is not classified as a configuration change
\* against a state that holds the hash of the first list.
HashIgnoresListOrder ==
    pure.step \in {"hashed", "again"} /\ IsReordering(pure.a, pure.b)
        => /\ pure.ha = pure.hb
           /\ ~hasFontConfigChanged(FontsOf(pure.b),
                                    [FreshState EXCEPT !.configHash = pure.ha])


(***************************************************************************)
(* retryWithBackoff with any integer maxRetries (SpecUnvalidated)          *)
(***************************************************************************)
\* C38 (as stated; violated): a downloadFont call that has ended has
\* invoked fn at least once; if it succeeded, the successful attempt was the
\* last one and its bytes are the value; if it failed, the error is the one
\* the last attempt raised.
AlwaysTriesOnce ==
    DownloadEnded =>
        /\ dl.calls >= 1
        /\ dl.ok => dl.calls = dl.failures + 1 /\ dl.value = BodyOf(dl.url)
        /\ ~dl.ok => /\ dl.calls = dl.failures
                     /\ dl.error.kind # "none"
                     /\ dl.error.at = dl.calls - 1


(***************************************************************************)
(* createTimer (SpecTimer)                                                 *)
(***************************************************************************)
\* start() is among the calls h and no end() came after it
StartedSince(h) ==
    \E k \in 1..Len(h) :
        /\ h[k] = "start"
        /\ \A j \in (k + 1)..Len(h) : h[j] # "end"

\* C40: a call of end() or peek() raises exactly when start() was not
\* called since the timer was made or since the last end(); so end() after
\* end() raises without a start() between them, and peek() calls do not
\* keep a later end() from succeeding.  start() never raises.
TimerProtocol ==
    pure.step = "timer" =>
        \A n \in 1..Len(pure.calls) :
            IF pure.calls[n] = "start"
            THEN pure.results[n] = "ok"
            ELSE pure.results[n] = "raised"
                    <=> ~StartedSince(SubSeq(pure.calls, 1, n - 1))

\* C40 witness: start, two peeks, an end that succeeds, an end that raises
PeeksThenEndThenEndRaises ==
    /\ pure.step = "timer"
    /\ pure.calls = <<"start", "peek", "peek", "end", "end">>
    /\ pure.results = <<"ok", "ok", "ok", "ok", "raised">>


(***************************************************************************)
(* sanitizePath (SpecPath)                                                 *)
(***************************************************************************)
\* the segments of a path on a platform
SegmentsOn(platform, str) == SplitOn(str, Separators(platform))

\* joined to a base directory, the path names something outside of it: at
\* some segment there are more ".." than names before it
LeavesBase(platform, str) ==
    LET segs == SegmentsOn(platform, str)
        Names(n) == Cardinality({ k \in 1..n :
                                    segs[k] \notin {<<>>, Dot, DotDot} })
        Ups(n) == Cardinality({ k \in 1..n : segs[k] = DotDot })
    IN  \E n \in 1..Len(segs) : Ups(n) > Names(n)

\* what C31 asks of a returned path
SafeRelative(platform, str) ==
    /\ ~IsAbsolute(platform, str)
    /\ \A k \in 1..Len(SegmentsOn(platform, str)) :
          SegmentsOn(platform, str)[k] # DotDot
    /\ ~LeavesBase(platform, str)

\* C31 (as stated; violated): a path that sanitizePath returns is not
\* absolute, has no ".." segment and, joined to a base directory, stays
\* inside of it.
NoTraversal ==
    pure.step = "sanitized" /\ ~pure.raised
        => SafeRelative(pure.platform, pure.value)

\* where path.posix and the platform agree, the claim of C31 holds
NoTraversalPosix ==
    pure.step = "sanitized" /\ ~pure.raised /\ pure.platform = "posix"
        => SafeRelative(pure.platform, pure.value)


(***************************************************************************)
(* The fallback when cached files are missing                              *)
(***************************************************************************)
\* the case of C33: the state file records the hash of f and a font list,
\* and public/fonts lacks a file of that list
FallbackCase(f) ==
    /\ stateFile.kind = "object"
    /\ stateFile.configHash = generateFontConfigHash(f)
    /\ stateFile.fontsIsArray
    /\ CachedFileMissing

\* every URL of the configuration was given to downloadFont
EveryUrlRequested(f, log) ==
    \A k \in 1..Len(f) : \A u \in UrlsOf(f[k]) :
        \E n \in 1..Len(log) : log[n] = u

\* C33: a call in the fallback case does not return the cached list: it
\* cleans public/fonts and enters the download loop; and a run on the
\* download path ends having requested every configured URL, with fonts.json
\* rewritten from what it downloaded and that list and the hash of the
\* configuration in the cache state it saves.
MissingFilesFallBack ==
    [][ /\ CallStep /\ FallbackCase(fonts')
           => /\ run'.path = "download"
              /\ run'.outcome = "none"
              /\ pc' = "woff"
              /\ files' = EmptyDir
        /\ pc = "finish" /\ run.path = "download"
           => /\ EveryUrlRequested(fonts, run.fetchLog)
              /\ fontsJson' = [exists |-> TRUE, fonts |-> fontData]
              /\ run'.value = fontData
              /\ run'.saved
                   => stateFile' = NewCacheState(fonts, fontData, clock)
      ]_vars

\* C33 witness: the second run found the hash of its configuration recorded
\* with a font list, took the download path all the same, and has requested
\* all its URLs
RedownloadedUnchangedConfig ==
    /\ pc = "finish"
    /\ run.path = "download"
    /\ clock = 2
    /\ stateFile.kind = "object"
    /\ stateFile.configHash = generateFontConfigHash(fonts)
    /\ stateFile.fontsIsArray
    /\ stateFile.fonts # <<>>
    /\ stateFile.lastSync = 1
    /\ EveryUrlRequested(fonts, run.fetchLog)
    /\ fontData # <<>>


FailedFonts ==
    { k \in 1..Len(fonts) :
        \A fmt \in {"woff", "woff2"} :
            UrlOf(fonts[k], fmt) # NoUrl => <<k, fmt>> \in run.exhausted }

\* C35 (as stated; violated): when a run has returned with a font all of
\* whose downloads failed and a font that was downloaded, the next run with
\* the same configuration takes the download path, on which it requests the
\* failed font again.
FailedFontRetriedNextRun ==
    [][ /\ CallStep
        /\ run.outcome = "returned"
        /\ run.path = "download"
        /\ FailedFonts # {}
        /\ Successful # {}
        /\ fonts' = fonts
        => run'.path = "download"
      ]_vars


(***************************************************************************)
(* fonts.json against the cache state (SpecBuild)                          *)
(***************************************************************************)
\* the fonts of list are fonts of f, in the order f has them in
InConfigOrder(list, f) ==
    /\ \A n \in 1..Len(list) : \E k \in 1..Len(f) : f[k].name = list[n].name
    /\ \A m, n \in 1..Len(list) :
          m < n => \E j, k \in 1..Len(f) :
                      /\ j < k
                      /\ f[j].name = list[m].name
                      /\ f[k].name = list[n].name

\* fonts.json holds the font list of the state file
FontsJsonIsCachedList ==
    /\ fontsJson.exists
    /\ stateFile.kind = "object"
    /\ stateFile.fontsIsArray
    /\ fontsJson.fonts = stateFile.fonts

\* a hook has just returned from the empty-configuration path
EmptyConfigurationDone ==
    HookEnded /\ hook.result = "returned" /\ hook.enumerated = "empty"

\* C36 (as stated; violated): after a run that has returned by the
\* cache-hit path or the download path, and after a hook that has returned
\* by the empty-configuration path, fonts.json holds the font list of the
\* cache state.
FontsJsonMatchesState ==
    run.outcome = "returned" \/ EmptyConfigurationDone
        => FontsJsonIsCachedList

\* C36 (amended): after a run that has returned by the cache-hit path, or by
\* the download path with its cache state saved, fonts.json holds the font
\* list of the cache state, and the fonts of that list are fonts of the
\* configuration in configuration order.
FontsJsonMatchesSavedState ==
    /\ run.outcome = "returned"
    /\ run.path = "hit" \/ (run.path = "download" /\ run.saved)
    => /\ FontsJsonIsCachedList
       /\ fontsJson.fonts = run.value
       /\ InConfigOrder(fontsJson.fonts, fonts)

\* C36 witness: a hook has returned from a run that downloaded the first and
\* the last of three fonts and saved them
SavedTwoOfThreeInOrder ==
    /\ HookEnded
    /\ run.outcome = "returned"
    /\ run.path = "download"
    /\ run.saved
    /\ Len(fonts) = 3
    /\ Len(fontsJson.fonts) = 2
    /\ fontsJson.fonts[1].name = fonts[1].name
    /\ fontsJson.fonts[2].name = fonts[3].name
    /\ stateFile.fonts = fontsJson.fonts


(***************************************************************************)
(* fonts.json against public/fonts (SpecBuild)                             *)
(***************************************************************************)
\* every path that fonts.json lists names a file of public/fonts
ListedFilesExist ==
    \A q \in CachedPaths(fontsJson.fonts) : basename(q) \in DOMAIN files

PreBuildWroteIndex ==
    /\ HookEnded
    /\ hook.kind = "onPreBuild"
    /\ hook.result = "returned"
    /\ run.outcome = "returned" \/ hook.enumerated = "empty"

EveryUrlHasItsFile ==
    AllDownloaded =>
        \A k \in 1..Len(fonts) : \A u \in UrlsOf(fonts[k]) :
            /\ basename(u) \in DOMAIN files
            /\ files[basename(u)] = BodyOf(u)


(***************************************************************************)
(* Termination of downloadFontsWithCache (SpecLive)                        *)
(***************************************************************************)
\* the number of URLs of a configuration
NumUrls(f) ==
    Cardinality({ <<k, fmt>> \in (1..Len(f)) \X {"woff", "woff2"} :
                    UrlOf(f[k], fmt) # NoUrl })

\* downloadFont was called at most once for every URL of the configuration,
\* and the call in progress or just ended has made at most maxRetries + 1
\* attempts
AttemptsWithinBound ==
    /\ Len(run.fetchLog) <= NumUrls(fonts)
    /\ \A m, n \in 1..Len(run.fetchLog) :
          m # n => run.fetchLog[m] # run.fetchLog[n]
    /\ \A n \in 1..Len(run.fetchLog) :
          \E k \in 1..Len(fonts) : run.fetchLog[n] \in UrlsOf(fonts[k])
    /\ dl.calls <= opts.maxRetries + 1
    /\ dl.active => dl.url = run.fetchLog[Len(run.fetchLog)]

\* C39: a call of downloadFontsWithCache that has begun returns, given that
\* every fetch in flight completes or fails; and in a run every configured
\* URL is fetched by at most one downloadFont call of at most maxRetries + 1
\* attempts, one call at a time, which bounds the attempts of the run by the
\* number of URLs times maxRetries + 1.
RunTerminatesWithinBound ==
    /\ []AttemptsWithinBound
    /\ (pc # "idle") ~> (pc = "idle" /\ run.outcome = "returned")

\* C39 witness: a run has returned in which every URL of three fonts took
\* all its attempts and failed
ReturnedAfterEveryAttemptFailed ==
    /\ pc = "idle"
    /\ run.outcome = "returned"
    /\ run.path = "download"
    /\ Len(fonts) = 3
    /\ opts.maxRetries = 1
    /\ Len(run.fetchLog) = NumUrls(fonts)
    /\ Cardinality(run.exhausted) = NumUrls(fonts)

====
